---- MODULE Spec2Model ----
(***************************************************************************)
(* Model of the discord-pixiv-uploader command loop (src/main.py) and of   *)
(* the artwork core it drives (src/pixiv/artwork.py): PixivArtwork.get,    *)
(* PixivArtwork.__init__, get_image_url and create_embed.                  *)
(*                                                                         *)
(* Python values are represented as follows.                               *)
(*   - a dict is a record whose DOMAIN is the set of keys present, so      *)
(*     data["k"] raises KeyError exactly when "k" \notin DOMAIN data;      *)
(*   - the polymorphic "tags" value carries its dynamic type in a field    *)
(*     `type` ("dict" or "list"), the tag list of an artwork carries the   *)
(*     type of its elements in `form` ("Tag" or "str");                    *)
(*   - a call either returns or raises: [kind |-> "return", ...] or        *)
(*     [kind |-> "raise", exc |-> <exception class>];                      *)
(*   - a decimal string is its sequence of digits, an f-string is the      *)
(*     sequence of its parts.                                              *)
(***************************************************************************)
EXTENDS Integers, Sequences, FiniteSets, TLC

\* ---------------------------------------------------------------- bounds
MaxTags == 2
MaxMissing == 1

\* ------------------------------------------------------- python basics
None == "None"

Raise(e) == [kind |-> "raise", exc |-> e]

\* Exception classes and their base classes (aiohttp / builtins).
Bases(e) ==
    CASE e = "ClientConnectionError" -> {"ClientConnectionError", "ClientError"}
      [] e = "ClientResponseError"   -> {"ClientResponseError", "ClientError"}
      [] e = "ContentTypeError"      -> {"ContentTypeError", "ClientResponseError", "ClientError"}
      [] e = "ServerTimeoutError"    -> {"ServerTimeoutError", "ClientConnectionError",
                                         "ClientError", "TimeoutError"}
      [] e = "JSONDecodeError"       -> {"JSONDecodeError", "ValueError"}
      [] OTHER                       -> {e}

\* int(s) of a decimal string, given as its digits; int("") raises ValueError.
RECURSIVE DecimalValue(_)
DecimalValue(ds) ==
    IF ds = <<>> THEN 0
    ELSE 10 * DecimalValue(SubSeq(ds, 1, Len(ds) - 1)) + ds[Len(ds)]

int(ds) == IF ds = <<>> THEN Raise("ValueError")
           ELSE [kind |-> "return", value |-> DecimalValue(ds)]

\* datetime.fromisoformat on the strings the model feeds it.
fromisoformat(s) ==
    IF s = "2023-01-01T00:00:00"
    THEN [kind |-> "return", value |-> <<2023, 1, 1, 0, 0, 0>>]
    ELSE Raise("ValueError")

\* discord.utils.escape_markdown on the user names of the model.
escape(name) == IF name = "a_b" THEN "a\\_b" ELSE name

\* ------------------------------------------------ Tag and PartialUser
PixivArtworkTag(d) ==
    [name |-> d.tag,
     translated_name |-> IF "translated_name" \in DOMAIN d
                         THEN d.translated_name ELSE None]

Tag_str(tag) == IF tag.translated_name # None THEN tag.translated_name ELSE tag.name

Tag_url(tag) == <<"https://www.pixiv.net/en/tags/", tag.name>>

PartialUser(id, name) == [id |-> id, name |-> name]

PartialUser_url(user) == <<"https://www.pixiv.net/en/users/", user.id>>

\* ------------------------------------------------ PixivArtwork.__init__
\* The first exception the constructor raises on `data`, or None. The keys
\* are read in the order of the assignments of __init__.
init_error(data) ==
    IF "id" \notin DOMAIN data THEN "KeyError"
    ELSE IF int(data.id).kind = "raise" THEN "ValueError"
    ELSE IF "title" \notin DOMAIN data THEN "KeyError"
    ELSE IF "userId" \notin DOMAIN data THEN "KeyError"
    ELSE IF "userName" \notin DOMAIN data THEN "KeyError"
    ELSE IF "xRestrict" \notin DOMAIN data THEN "KeyError"
    ELSE IF "createDate" \notin DOMAIN data THEN "KeyError"
    ELSE IF fromisoformat(data.createDate).kind = "raise" THEN "ValueError"
    ELSE IF "tags" \notin DOMAIN data THEN "KeyError"
    ELSE IF data.tags.type = "dict" /\ "tags" \notin DOMAIN data.tags THEN "KeyError"
    ELSE IF data.tags.type = "dict"
            /\ \E i \in 1..Len(data.tags.tags) : "tag" \notin DOMAIN data.tags.tags[i]
         THEN "KeyError"
    ELSE IF "width" \notin DOMAIN data THEN "KeyError"
    ELSE IF "height" \notin DOMAIN data THEN "KeyError"
    ELSE IF "pageCount" \notin DOMAIN data THEN "KeyError"
    ELSE IF "urls" \notin DOMAIN data THEN "KeyError"
    ELSE None

\* A constructor that builds the Tag list back to front.
init_tags_reversed(tags) ==
    IF tags.type = "dict"
    THEN [form |-> "Tag",
          items |-> [i \in 1..Len(tags.tags) |->
                        PixivArtworkTag(tags.tags[Len(tags.tags) + 1 - i])]]
    ELSE [form |-> "str", items |-> tags.items]

\* The tag list the constructor stores (lines 53-57).
init_tags(tags) ==
    IF tags.type = "dict"
    THEN [form |-> "Tag",
          items |-> [i \in 1..Len(tags.tags) |-> PixivArtworkTag(tags.tags[i])]]
    ELSE [form |-> "str", items |-> tags.items]

PixivArtwork_init(data) ==
    IF init_error(data) # None THEN Raise(init_error(data))
    ELSE [kind |-> "return",
          artwork |->
            [id |-> int(data.id).value,
             title |-> data.title,
             author |-> PartialUser(data.userId, data.userName),
             nsfw |-> (data.xRestrict # 0),
             created_at |-> fromisoformat(data.createDate).value,
             tags |-> init_tags(data.tags),
             width |-> data.width,
             height |-> data.height,
             pages_count |-> data.pageCount,
             image_urls |-> data.urls]]

PixivArtwork_url(artwork) == <<"https://www.pixiv.net/en/artworks/", artwork.id>>

\* ---------------------------------------------- PixivArtwork.get_image_url
\* A get_image_url that tests `if url:` instead of `if url is not None:`.
get_image_url_falsy(artwork) ==
    IF "regular" \notin DOMAIN artwork.image_urls THEN Raise("KeyError")
    ELSE IF artwork.image_urls.regular \notin {None, ""}
         THEN [kind |-> "return", value |-> artwork.image_urls.regular]
         ELSE [kind |-> "prompt"]

\* Returns the "regular" URL, or suspends on the operator prompt.
get_image_url(artwork) ==
    IF "regular" \notin DOMAIN artwork.image_urls THEN Raise("KeyError")
    ELSE IF artwork.image_urls.regular # None
         THEN [kind |-> "return", value |-> artwork.image_urls.regular]
         ELSE [kind |-> "prompt"]

\* ------------------------------------------------ PixivArtwork.create_embed
RECURSIVE join(_, _)
join(sep, items) ==
    IF items = <<>> THEN <<>>
    ELSE IF Len(items) = 1 THEN items[1]
    ELSE items[1] \o <<sep>> \o join(sep, Tail(items))

\* One item of the generator of line 89: f"[{str(tag)}]({tag.url})". A str
\* has no attribute `url`.
tag_item(form, tag) ==
    IF form = "str" THEN Raise("AttributeError")
    ELSE [kind |-> "return",
          value |-> <<"[", Tag_str(tag), "](">> \o Tag_url(tag) \o <<")">>]

\* The value of the "Tags" field (line 89).
tags_value(tags) ==
    IF \E i \in 1..Len(tags.items) : tag_item(tags.form, tags.items[i]).kind = "raise"
    THEN Raise("AttributeError")
    ELSE [kind |-> "return",
          value |-> join(", ", [i \in 1..Len(tags.items) |->
                                   tag_item(tags.form, tags.items[i]).value])]

\* A create_embed without the test `if self.tags:`.
embed_fields_always_tags(artwork) ==
    <<[name |-> "Tags", value |-> tags_value(artwork.tags).value, inline |-> FALSE],
      [name |-> "Artwork ID", value |-> <<artwork.id>>, inline |-> TRUE],
      [name |-> "Author",
       value |-> <<"[", escape(artwork.author.name), "](">>
                 \o PartialUser_url(artwork.author) \o <<")">>,
       inline |-> TRUE],
      [name |-> "Size", value |-> <<artwork.width, " x ", artwork.height>>, inline |-> TRUE],
      [name |-> "Pages count", value |-> <<artwork.pages_count>>, inline |-> TRUE],
      [name |-> "Artwork link", value |-> PixivArtwork_url(artwork), inline |-> FALSE]>>

\* The fields added by lines 86-113, in the order of the add_field calls.
embed_fields(artwork) ==
    (IF artwork.tags.items # <<>>
     THEN <<[name |-> "Tags", value |-> tags_value(artwork.tags).value, inline |-> FALSE]>>
     ELSE <<>>)
    \o <<[name |-> "Artwork ID", value |-> <<artwork.id>>, inline |-> TRUE],
         [name |-> "Author",
          value |-> <<"[", escape(artwork.author.name), "](">>
                    \o PartialUser_url(artwork.author) \o <<")">>,
          inline |-> TRUE],
         [name |-> "Size", value |-> <<artwork.width, " x ", artwork.height>>, inline |-> TRUE],
         [name |-> "Pages count", value |-> <<artwork.pages_count>>, inline |-> TRUE],
         [name |-> "Artwork link", value |-> PixivArtwork_url(artwork), inline |-> FALSE]>>

create_embed(artwork, attachment_name) ==
    IF artwork.tags.items # <<>> /\ tags_value(artwork.tags).kind = "raise"
    THEN Raise(tags_value(artwork.tags).exc)
    ELSE [kind |-> "return",
          embed |-> [title |-> artwork.title,
                     url |-> PixivArtwork_url(artwork),
                     color |-> 3066993,
                     timestamp |-> artwork.created_at,
                     image |-> <<"attachment://", attachment_name>>,
                     fields |-> embed_fields(artwork)]]

\* ------------------------------------------------------ PixivArtwork.get
\* A suppress(aiohttp.ClientError) that forgets asyncio.TimeoutError.
suppressed_ClientError_only(e) == "ClientError" \in Bases(e)

\* A suppress(Exception).
suppressed_Exception(e) == TRUE

\* Exceptions swallowed by contextlib.suppress (line 138).
suppressed(e) == Bases(e) \cap {"ClientError", "TimeoutError"} # {}

\* The body of the `with` block (lines 139-147) on the response `resp`.
get_body(resp) ==
    IF "exc" \in DOMAIN resp THEN Raise(resp.exc)
    ELSE IF resp.status # 200 THEN [kind |-> "None"]
    ELSE IF "exc" \in DOMAIN resp.json THEN Raise(resp.json.exc)
    ELSE IF "error" \notin DOMAIN resp.json.data THEN Raise("KeyError")
    ELSE IF resp.json.data.error THEN [kind |-> "None"]
    ELSE IF "body" \notin DOMAIN resp.json.data THEN Raise("KeyError")
    ELSE PixivArtwork_init(resp.json.data.body)

PixivArtwork_get(resp) ==
    IF get_body(resp).kind = "raise" /\ suppressed(get_body(resp).exc)
    THEN [kind |-> "None"]
    ELSE get_body(resp)

\* ------------------------------------------------------- model inputs
SeqsUpTo(S, n) == UNION {[1..k -> S] : k \in 0..n}

TagNames == {"calm", "sky"}

\* Provider tag sub-documents; the last one lacks the "tag" key.
TagDocs == {[tag |-> "sora"],
            [tag |-> "umi", translated_name |-> "sea"],
            [translated_name |-> "x"]}

TagValues ==
    {[type |-> "list", items |-> l] : l \in SeqsUpTo(TagNames, MaxTags)}
    \cup {[type |-> "dict", tags |-> l] : l \in SeqsUpTo(TagDocs, MaxTags)}
    \cup {[type |-> "dict"]}

ImageUrl == "https://i.pximg.net/img-master/1_p0_master1200.jpg"

UrlMaps == {[regular |-> ImageUrl], [regular |-> ""], [regular |-> None],
            [thumb |-> "https://i.pximg.net/thumb.jpg"]}

RequiredKeys == {"id", "title", "userId", "userName", "xRestrict", "createDate",
                 "tags", "width", "height", "pageCount", "urls"}

FullDocuments(tagValues, urlMaps) ==
    {[id |-> i, title |-> "Sunset", userId |-> 5, userName |-> "a_b",
      xRestrict |-> 0, createDate |-> c, tags |-> t,
      width |-> 800, height |-> 600, pageCount |-> 1, urls |-> u] :
        i \in {<<4, 2>>, <<>>},
        c \in {"2023-01-01T00:00:00", "yesterday"},
        t \in tagValues,
        u \in urlMaps}

Without(d, keys) == [k \in DOMAIN d \ keys |-> d[k]]

\* The tag values of the documents that lack keys.
FewTagValues ==
    {[type |-> "list", items |-> <<>>],
     [type |-> "list", items |-> <<"calm">>],
     [type |-> "dict", tags |-> <<>>],
     [type |-> "dict", tags |-> <<[tag |-> "sora"]>>],
     [type |-> "dict"]}

\* The bodies the provider sends: every complete document, and documents
\* that lack up to MaxMissing of the required keys.
Documents ==
    FullDocuments(TagValues, UrlMaps)
    \cup {Without(d, m) : d \in FullDocuments(FewTagValues, {[regular |-> ImageUrl]}),
                          m \in {x \in SUBSET RequiredKeys : Cardinality(x) <= MaxMissing}}

\* The example document of the specification, and the same without a title.
ExampleDocuments ==
    {[id |-> <<1, 2, 3>>, title |-> "Sunset", userId |-> 5, userName |-> "Ann",
      xRestrict |-> 0, createDate |-> "2023-01-01T00:00:00",
      tags |-> [type |-> "list", items |-> <<"calm", "sky">>],
      width |-> 800, height |-> 600, pageCount |-> 1,
      urls |-> [regular |-> "http://x/img.png"]],
     [id |-> <<1, 2, 3>>, userId |-> 5, userName |-> "Ann",
      xRestrict |-> 0, createDate |-> "2023-01-01T00:00:00",
      tags |-> [type |-> "list", items |-> <<"calm", "sky">>],
      width |-> 800, height |-> 600, pageCount |-> 1,
      urls |-> [regular |-> "http://x/img.png"]]}

\* What `session.get(...)` and `response.json()` can give PixivArtwork.get.
Responses ==
    {[exc |-> e] : e \in {"ClientConnectionError", "TimeoutError", "ServerTimeoutError"}}
    \cup {[status |-> 404]}
    \cup {[status |-> 200, json |-> [exc |-> e]] : e \in {"ContentTypeError", "JSONDecodeError"}}
    \cup {[status |-> 200, json |-> [data |-> [error |-> b]]] : b \in BOOLEAN}
    \cup {[status |-> 200, json |-> [data |-> [body |-> d]]] : d \in ExampleDocuments}
    \cup {[status |-> 200, json |-> [data |-> [error |-> TRUE, body |-> d]]] :
            d \in ExampleDocuments}
    \cup {[status |-> 200, json |-> [data |-> [error |-> FALSE, body |-> d]]] :
            d \in Documents}

\* Outcomes of the image download (lines 75-77) and of the POST (111-116).
Downloads ==
    {[exc |-> e] : e \in {"ClientConnectionError", "TimeoutError"}}
    \cup {[status |-> 200], [status |-> 404]}

Posts ==
    {[exc |-> e] : e \in {"ClientConnectionError", "TimeoutError"}}
    \cup {[status |-> 200], [status |-> 403]}

Channels == {"1001", "1002"}

ArtworkUrls == {"https://www.pixiv.net/en/artworks/42/",
                "https://www.pixiv.net/users/5"}

OperatorUrls == {"https://i.pximg.net/manual.jpg", ""}

\* The lines the operator types: the tokens shlex finds, and whether the
\* quoting is closed.
Lines ==
    {[closed |-> FALSE, tokens |-> <<"send">>]}
    \cup {[closed |-> TRUE, tokens |-> t] :
            t \in {<<>>, <<"help">>, <<"quit">>, <<"QUIT">>, <<"upload">>,
                   <<"set">>, <<"send">>}
                  \cup {<<"set", c>> : c \in Channels}
                  \cup {<<"SET", "1001", "1002">>}
                  \cup {<<"send", u>> : u \in ArtworkUrls \cup {"1001"}}}

\* ------------------------------------------------------------- main.py
\* shlex.split followed by the unpacking `command, *arguments = ...`.
shlex_split(line) ==
    IF ~line.closed \/ line.tokens = <<>> THEN Raise("ValueError")
    ELSE [kind |-> "return", command |-> Head(line.tokens), arguments |-> Tail(line.tokens)]

lower(s) == CASE s = "QUIT" -> "quit" [] s = "SET" -> "set" [] OTHER -> s

\* URL_PATTERN.fullmatch(url): group 2 of the match, or None.
URL_PATTERN_fullmatch(url) ==
    IF url = "https://www.pixiv.net/en/artworks/42/"
    THEN [kind |-> "match", group2 |-> <<4, 2>>]
    ELSE [kind |-> "None"]

Unset == [kind |-> "unset"]

VARIABLES
    pc,               \* where main() is: "command", "get", "image URL", "download", "post", "exited"
    current_channel,  \* main's current_channel
    text_cmd,         \* the line read last
    response,         \* what the metadata request of this command gave
    result,           \* what PixivArtwork.get gave main
    image_url,        \* main's image_url
    operator_url,     \* what the operator typed at "image URL>"
    download,         \* what the image download gave
    embed,            \* what create_embed gave
    requests,         \* the requests this command issued, in order
    output,           \* what this command printed, prompts included
    exit,             \* why the process ended: "quit" or the exception
    last_set          \* history: the argument of the last `set <channel>`

vars == <<pc, current_channel, text_cmd, response, result, image_url, operator_url,
          download, embed, requests, output, exit, last_set>>

Init ==
    /\ pc = "command"
    /\ current_channel = None
    /\ text_cmd = Unset
    /\ response = Unset
    /\ result = Unset
    /\ image_url = None
    /\ operator_url = None
    /\ download = Unset
    /\ embed = Unset
    /\ requests = <<>>
    /\ output = <<>>
    /\ exit = None
    /\ last_set = None

\* A line is read at "command>" (line 25); the record of the previous
\* command is dropped.
Read(line) ==
    /\ pc = "command"
    /\ text_cmd' = line
    /\ response' = Unset
    /\ result' = Unset
    /\ image_url' = None
    /\ operator_url' = None
    /\ download' = Unset
    /\ embed' = Unset

\* Lines 26-29: shlex or the unpacking raises ValueError.
CmdInvalid ==
    \E line \in Lines :
        /\ Read(line)
        /\ shlex_split(line).kind = "raise"
        /\ output' = <<"Invalid command">>
        /\ requests' = <<>>
        /\ UNCHANGED <<pc, current_channel, exit, last_set>>

\* Lines 33-37.
CmdHelp ==
    \E line \in Lines :
        /\ Read(line)
        /\ shlex_split(line).kind = "return"
        /\ lower(shlex_split(line).command) = "help"
        /\ output' = <<"Available commands:", "help", "quit", "send <Pixiv URL>",
                       "set <channel ID>">>
        /\ requests' = <<>>
        /\ UNCHANGED <<pc, current_channel, exit, last_set>>

\* Lines 39-40: main returns and the process ends.
CmdQuit ==
    \E line \in Lines :
        /\ Read(line)
        /\ shlex_split(line).kind = "return"
        /\ lower(shlex_split(line).command) = "quit"
        /\ pc' = "exited"
        /\ exit' = "quit"
        /\ output' = <<>>
        /\ requests' = <<>>
        /\ UNCHANGED <<current_channel, last_set>>

\* Lines 42-49.
CmdSet ==
    \E line \in Lines :
        /\ Read(line)
        /\ shlex_split(line).kind = "return"
        /\ lower(shlex_split(line).command) = "set"
        /\ requests' = <<>>
        /\ IF shlex_split(line).arguments = <<>>
           THEN /\ output' = <<"Missing argument">>
                /\ UNCHANGED <<current_channel, last_set>>
           ELSE /\ current_channel' = shlex_split(line).arguments[1]
                /\ last_set' = shlex_split(line).arguments[1]
                /\ output' = <<"Set target channel ID to {current_channel}">>
        /\ UNCHANGED <<pc, exit>>

\* The request PixivArtwork.get issues (line 139).
get_request(artwork_id) ==
    [method |-> "GET", endpoint |-> "https://www.pixiv.net/ajax/illust/", target |-> <<artwork_id>>]

\* A `send` without the test `if current_channel is None:`.
send_ungated(channel, arguments) ==
    IF arguments = <<>>
    THEN [output |-> <<"Missing argument">>, requests |-> <<>>, pc |-> "command"]
    ELSE IF URL_PATTERN_fullmatch(arguments[1]).kind = "None"
    THEN [output |-> <<"Invalid URL: {url}">>, requests |-> <<>>, pc |-> "command"]
    ELSE [output |-> <<>>,
          requests |-> <<get_request(int(URL_PATTERN_fullmatch(arguments[1]).group2).value)>>,
          pc |-> "get"]

\* Lines 52-68 on main's current channel and the arguments of `send`: what
\* is printed, what is requested, and where main() is afterwards.
send(channel, arguments) ==
    IF channel = None
    THEN [output |-> <<"Please set current channel first!">>, requests |-> <<>>,
          pc |-> "command"]
    ELSE IF arguments = <<>>
    THEN [output |-> <<"Missing argument">>, requests |-> <<>>, pc |-> "command"]
    ELSE IF URL_PATTERN_fullmatch(arguments[1]).kind = "None"
    THEN [output |-> <<"Invalid URL: {url}">>, requests |-> <<>>, pc |-> "command"]
    ELSE [output |-> <<>>,
          requests |-> <<get_request(int(URL_PATTERN_fullmatch(arguments[1]).group2).value)>>,
          pc |-> "get"]

\* Lines 51-68, up to the suspension of PixivArtwork.get on its request.
CmdSend ==
    \E line \in Lines :
        /\ Read(line)
        /\ shlex_split(line).kind = "return"
        /\ lower(shlex_split(line).command) = "send"
        /\ output' = send(current_channel, shlex_split(line).arguments).output
        /\ requests' = send(current_channel, shlex_split(line).arguments).requests
        /\ pc' = send(current_channel, shlex_split(line).arguments).pc
        /\ UNCHANGED <<current_channel, exit, last_set>>

\* Lines 118-119.
CmdUnknown ==
    \E line \in Lines :
        /\ Read(line)
        /\ shlex_split(line).kind = "return"
        /\ lower(shlex_split(line).command) \notin {"help", "quit", "set", "send"}
        /\ output' = <<"Unknown command: {command}">>
        /\ requests' = <<>>
        /\ UNCHANGED <<pc, current_channel, exit, last_set>>

\* An exception nothing catches leaves main(); asyncio.run re-raises it.
Uncaught(e) ==
    /\ pc' = "exited"
    /\ exit' = e

\* The download request of line 75.
image_request(url) ==
    [method |-> "GET", endpoint |-> "image", target |-> <<url>>]

\* Lines 68-75: PixivArtwork.get resumes with the response `resp` and returns
\* to main, which resolves the image URL and starts the download.
GetResponseStep(resp) ==
    /\ pc = "get"
    /\ response' = resp
    /\ result' = PixivArtwork_get(resp)
    /\ CASE PixivArtwork_get(resp).kind = "raise" ->
              /\ Uncaught(PixivArtwork_get(resp).exc)
              /\ UNCHANGED <<image_url, requests, output>>
         [] PixivArtwork_get(resp).kind = "None" ->
              /\ output' = Append(output, "Cannot find such artwork!")
              /\ pc' = "command"
              /\ UNCHANGED <<image_url, requests, exit>>
         [] PixivArtwork_get(resp).kind = "return" ->
              LET got == get_image_url(PixivArtwork_get(resp).artwork) IN
              CASE got.kind = "raise" ->
                     /\ Uncaught(got.exc)
                     /\ UNCHANGED <<image_url, requests, output>>
                [] got.kind = "return" ->
                     /\ image_url' = got.value
                     /\ requests' = Append(requests, image_request(got.value))
                     /\ pc' = "download"
                     /\ UNCHANGED <<output, exit>>
                [] got.kind = "prompt" ->
                     /\ output' = output \o
                            <<"Cannot fetch image URL for artwork {id}, please enter it manually.",
                              "image URL>">>
                     /\ pc' = "image URL"
                     /\ UNCHANGED <<image_url, requests, exit>>
    /\ UNCHANGED <<current_channel, text_cmd, operator_url, download, embed, last_set>>

\* A get that asks once more when the status is not 200.
GetResponse_retry ==
    \E resp \in Responses :
        IF "status" \in DOMAIN resp /\ resp.status # 200 /\ Len(requests) < 2
        THEN /\ pc = "get"
             /\ requests' = Append(requests, requests[1])
             /\ UNCHANGED <<pc, current_channel, text_cmd, response, result, image_url,
                            operator_url, download, embed, output, exit, last_set>>
        ELSE GetResponseStep(resp)

GetResponse == \E resp \in Responses : GetResponseStep(resp)

\* Lines 74-75: the operator answers "image URL>", get_image_url returns the
\* answer and main starts the download.
OperatorInput ==
    \E url \in OperatorUrls :
        /\ pc = "image URL"
        /\ operator_url' = url
        /\ image_url' = url
        /\ requests' = Append(requests, image_request(url))
        /\ pc' = "download"
        /\ UNCHANGED <<current_channel, text_cmd, response, result, download, embed,
                       output, exit, last_set>>

\* A download without response.raise_for_status().
download_error_unchecked(d) ==
    IF "exc" \in DOMAIN d THEN d.exc ELSE None

\* What lines 75-77 raise on the outcome `d` of the download, or None;
\* raise_for_status raises ClientResponseError on a status of 400 or more.
download_error(d) ==
    IF "exc" \in DOMAIN d THEN d.exc
    ELSE IF d.status >= 400 THEN "ClientResponseError"
    ELSE None

\* Line 79: except aiohttp.ClientError.
caught(e) == "ClientError" \in Bases(e)

\* The request of lines 111-115.
post_request(channel) ==
    [method |-> "POST", endpoint |-> "https://discord.com/api/v10/channels/{}/messages",
     target |-> <<channel>>]

\* Lines 75-111: the download ends; on success main renders the embed and
\* starts the POST.
DownloadResponse ==
    \E d \in Downloads :
        /\ pc = "download"
        /\ download' = d
        /\ IF download_error(d) # None
           THEN IF caught(download_error(d))
                THEN /\ output' = Append(output, "Cannot fetch image from {image_url}!")
                     /\ pc' = "command"
                     /\ UNCHANGED <<embed, requests, exit>>
                ELSE /\ Uncaught(download_error(d))
                     /\ UNCHANGED <<embed, requests, output>>
           ELSE /\ embed' = create_embed(result.artwork, "image.png")
                /\ IF create_embed(result.artwork, "image.png").kind = "raise"
                   THEN /\ Uncaught(create_embed(result.artwork, "image.png").exc)
                        /\ UNCHANGED <<requests, output>>
                   ELSE /\ requests' = Append(requests, post_request(current_channel))
                        /\ pc' = "post"
                        /\ UNCHANGED <<output, exit>>
        /\ UNCHANGED <<current_channel, text_cmd, response, result, image_url,
                       operator_url, last_set>>

\* Lines 111-116: the POST ends; nothing catches what session.post raises.
PostResponse ==
    \E p \in Posts :
        /\ pc = "post"
        /\ IF "exc" \in DOMAIN p
           THEN /\ Uncaught(p.exc)
                /\ UNCHANGED output
           ELSE /\ output' = Append(output, "HTTP status {response.status}")
                /\ pc' = "command"
                /\ UNCHANGED exit
        /\ UNCHANGED <<current_channel, text_cmd, response, result, image_url,
                       operator_url, download, embed, requests, last_set>>

Next ==
    \/ CmdInvalid
    \/ CmdHelp
    \/ CmdQuit
    \/ CmdSet
    \/ CmdSend
    \/ CmdUnknown
    \/ GetResponse
    \/ OperatorInput
    \/ DownloadResponse
    \/ PostResponse

Spec == Init /\ [][Next]_vars

TypeOK ==
    /\ pc \in {"command", "get", "image URL", "download", "post", "exited"}
    /\ current_channel \in {None} \cup Channels
    /\ last_set = current_channel
    /\ result # Unset => result.kind \in {"None", "return", "raise"}

\* ------------------------------------------------------------ properties
IsMetadataRequest(r) == r.endpoint = "https://www.pixiv.net/ajax/illust/"
IsImageRequest(r) == r.endpoint = "image"
IsPost(r) == r.method = "POST"

Printed(message) == \E i \in 1..Len(output) : output[i] = message

\* The provider document PixivArtwork.get handed to the constructor.
HasBody(resp) ==
    /\ "status" \in DOMAIN resp
    /\ resp.status = 200
    /\ "data" \in DOMAIN resp.json
    /\ "error" \in DOMAIN resp.json.data
    /\ ~resp.json.data.error
    /\ "body" \in DOMAIN resp.json.data

\* The response is one of the three cases of absence.
AbsenceCase(resp) ==
    \/ "exc" \in DOMAIN resp
    \/ /\ "status" \in DOMAIN resp
       /\ \/ resp.status # 200
          \/ /\ "data" \in DOMAIN resp.json
             /\ "error" \in DOMAIN resp.json.data
             /\ resp.json.data.error

\* The body is one the claims call malformed: a required key is absent or
\* createDate does not parse.
Malformed(body) ==
    \/ RequiredKeys \ DOMAIN body # {}
    \/ /\ "createDate" \in DOMAIN body
       /\ body.createDate # "2023-01-01T00:00:00"

\* The outcomes of a `send` that C1 lists: an absent or malformed fetch, a
\* failed image download, a failed POST.
ListedOutcome ==
    \/ result # Unset /\ AbsenceCase(response)
    \/ result # Unset /\ HasBody(response) /\ Malformed(response.json.data.body)
    \/ download # Unset /\ download_error(download) # None
    \/ \E i \in 1..Len(requests) : IsPost(requests[i])

\* C1: no listed outcome of a `send` (fetch error or timeout, non-200,
\* error flag, malformed 200 body, image download error or timeout, failed
\* POST) is fatal to the process: main() is left only by `quit`.
C1_OnlyQuitEndsTheProcess == (pc = "exited" /\ ListedOutcome) => exit = "quit"

\* C2: create_embed completes without raising on every artwork the
\* constructor can produce, whether its tags are Tag values or plain strings,
\* and a non-empty tag list gives a "Tags" field of one item per tag.
C2_RenderSupportsBothTagForms ==
    embed # Unset =>
        /\ embed.kind = "return"
        /\ result.artwork.tags.items # <<>> =>
              /\ embed.embed.fields[1].name = "Tags"
              /\ Len(embed.embed.fields[1].value) = 7 * Len(result.artwork.tags.items) - 1

\* C3: when the request raises a transport error (aiohttp.ClientError or a
\* timeout), or the status is not 200, or the `error` flag of the body is
\* truthy, get returns None: no exception, no Artwork.
C3_AbsencePolicy ==
    (result # Unset /\ AbsenceCase(response)) => result.kind = "None"

C3_Witness ==
    /\ result # Unset
    /\ "exc" \in DOMAIN response
    /\ response.exc = "TimeoutError"
    /\ result.kind = "None"
    /\ pc = "command"

\* C4: a 200 response with a falsy `error` flag whose body lacks a required
\* field or carries an unparsable createDate makes get raise to its caller;
\* it is never turned into None.
C4_MalformedIsNotAbsence ==
    (result # Unset /\ HasBody(response) /\ Malformed(response.json.data.body)) =>
        /\ result.kind = "raise"
        /\ result.exc \in {"KeyError", "ValueError"}

C4_Witness ==
    /\ result # Unset
    /\ HasBody(response)
    /\ DOMAIN response.json.data.body = RequiredKeys \ {"title"}
    /\ result = Raise("KeyError")

\* C5: get_image_url prompts the operator if and only if
\* image_urls["regular"] is None; a non-None value is returned as it is,
\* without a prompt, and after a prompt the operator's answer is returned.
C5_ManualFallbackIffNull ==
    (result # Unset /\ result.kind = "return"
        /\ "regular" \in DOMAIN result.artwork.image_urls) =>
        LET regular == result.artwork.image_urls.regular IN
        /\ Printed("image URL>") <=> regular = None
        /\ regular # None => image_url = regular /\ operator_url = None
        /\ (regular = None /\ pc # "image URL") =>
              operator_url \in OperatorUrls /\ image_url = operator_url
        /\ (regular = None /\ pc = "image URL") => image_url = None

C5_Witness ==
    /\ result # Unset
    /\ result.kind = "return"
    /\ "regular" \in DOMAIN result.artwork.image_urls
    /\ result.artwork.image_urls.regular = None
    /\ Printed("image URL>")
    /\ pc = "download"
    /\ image_url = "https://i.pximg.net/manual.jpg"

\* C6: a payload create_embed returns has a "Tags" field if and only if the
\* tag list is non-empty, its fields are in the order Tags (when present),
\* Artwork ID, Author, Size, Pages count, Artwork link, and Size reads
\* "{width} x {height}".
FieldNames(e) == [i \in 1..Len(e.fields) |-> e.fields[i].name]

C6_FieldOrder ==
    (embed # Unset /\ embed.kind = "return") =>
        LET body == response.json.data.body
            fixed == <<"Artwork ID", "Author", "Size", "Pages count", "Artwork link">> IN
        /\ (\E i \in 1..Len(embed.embed.fields) : embed.embed.fields[i].name = "Tags")
              <=> result.artwork.tags.items # <<>>
        /\ FieldNames(embed.embed) =
              IF result.artwork.tags.items # <<>> THEN <<"Tags">> \o fixed ELSE fixed
        /\ \A i \in 1..Len(embed.embed.fields) :
              embed.embed.fields[i].name = "Size" =>
                  embed.embed.fields[i].value = <<body.width, " x ", body.height>>

C6_Witness ==
    /\ embed # Unset
    /\ embed.kind = "return"
    /\ Len(result.artwork.tags.items) = 2
    /\ Len(embed.embed.fields) = 6
    /\ embed.embed.fields[1].name = "Tags"
    /\ pc = "post"

\* C7: on a valid provider document whose `tags` is an object, the artwork
\* has one Tag per element of the nested list, in the same order; on a flat
\* list the artwork's tag list is that list unchanged.
C7_TagShapeResolution ==
    (result # Unset /\ result.kind = "return") =>
        LET tags == response.json.data.body.tags
            made == result.artwork.tags IN
        IF tags.type = "dict"
        THEN /\ made.form = "Tag"
             /\ Len(made.items) = Len(tags.tags)
             /\ \A i \in 1..Len(tags.tags) : made.items[i].name = tags.tags[i].tag
        ELSE /\ made.form = "str"
             /\ made.items = tags.items

C7_Witness ==
    /\ result # Unset
    /\ result.kind = "return"
    /\ response.json.data.body.tags.type = "dict"
    /\ Len(result.artwork.tags.items) = 2
    /\ result.artwork.tags.items[1].name = "umi"
    /\ result.artwork.tags.items[2].name = "sora"

\* C8: one invocation of get issues exactly one GET to the metadata endpoint
\* of the requested id; no outcome makes it ask again.
C8_SingleRequest ==
    LET gets == SelectSeq(requests, IsMetadataRequest) IN
    /\ Len(gets) <= 1
    /\ (pc = "get" \/ result # Unset) =>
          /\ Len(gets) = 1
          /\ gets[1].method = "GET"
          /\ gets[1].target =
                <<DecimalValue(URL_PATTERN_fullmatch(text_cmd.tokens[2]).group2)>>

C8_Witness ==
    /\ result # Unset
    /\ "status" \in DOMAIN response
    /\ response.status = 404
    /\ Len(SelectSeq(requests, IsMetadataRequest)) = 1
    /\ requests[1].target = <<42>>

\* C9: within one `send`, the POST is issued at most once and only after
\* the fetch returned an Artwork and the image download then succeeded;
\* absence gives no prompt, no download and no POST; a download that fails
\* with a client error is reported, not retried, and gives no POST.
C9_SendOrdering ==
    LET posts == SelectSeq(requests, IsPost)
        images == SelectSeq(requests, IsImageRequest) IN
    /\ Len(posts) <= 1
    /\ Len(images) <= 1
    /\ Len(posts) = 1 =>
          /\ result # Unset /\ result.kind = "return"
          /\ download # Unset /\ "status" \in DOMAIN download /\ download.status < 400
          /\ Len(requests) = 3
          /\ IsMetadataRequest(requests[1])
          /\ IsImageRequest(requests[2])
          /\ IsPost(requests[3])
    /\ (result # Unset /\ result.kind = "None") =>
          /\ Len(requests) = 1
          /\ IsMetadataRequest(requests[1])
          /\ ~Printed("image URL>")
          /\ image_url = None
          /\ download = Unset
    /\ (download # Unset /\ ("exc" \in DOMAIN download => caught(download.exc))
                         /\ ("status" \in DOMAIN download => download.status >= 400)) =>
          /\ Printed("Cannot fetch image from {image_url}!")
          /\ Len(images) = 1
          /\ Len(posts) = 0
          /\ pc = "command"

C9_Witness ==
    /\ download # Unset
    /\ "status" \in DOMAIN download
    /\ download.status = 404
    /\ Printed("Cannot fetch image from {image_url}!")
    /\ Len(requests) = 2
    /\ pc = "command"

\* C10: a `send` while no channel is set issues no request and leaves the
\* loop as it was; every POST goes to the channel of the last `set <channel>`;
\* a `set` without argument leaves the channel unchanged.
IsCommand(line, name) ==
    /\ line # Unset
    /\ shlex_split(line).kind = "return"
    /\ lower(shlex_split(line).command) = name

C10_ChannelGatingStep ==
    /\ (pc = "command" /\ current_channel = None /\ IsCommand(text_cmd', "send")) =>
          /\ requests' = <<>>
          /\ pc' = "command"
          /\ current_channel' = None
          /\ exit' = exit
    /\ (pc = "command" /\ IsCommand(text_cmd', "set")
                       /\ shlex_split(text_cmd').arguments = <<>>) =>
          /\ current_channel' = current_channel
          /\ pc' = "command"
    /\ (pc = "command" /\ IsCommand(text_cmd', "set")
                       /\ shlex_split(text_cmd').arguments # <<>>) =>
          current_channel' = shlex_split(text_cmd').arguments[1]
    /\ ~(pc = "command" /\ IsCommand(text_cmd', "set")) =>
          /\ current_channel' = current_channel
          /\ last_set' = last_set

C10_ChannelGating ==
    /\ [](current_channel = None => requests = <<>>)
    /\ [](\A i \in 1..Len(requests) :
             IsPost(requests[i]) => last_set # None /\ requests[i].target = <<last_set>>)
    /\ [][C10_ChannelGatingStep]_vars

C10_Witness ==
    /\ Len(requests) = 3
    /\ IsPost(requests[3])
    /\ requests[3].target = <<"1002">>
    /\ last_set = "1002"
    /\ pc = "post"

====
